---------------------------- MODULE Spec2Model ----------------------------
(***************************************************************************)
(* Model of sliceplots.two_dimensional.Plot2D: the constructor crops the   *)
(* input array and axes to the viewing window, resolves the optional slice *)
(* coordinates to indices and composes the figure in draw_fig.             *)
(*                                                                         *)
(* One behaviour is one call Plot2D(arr2d, h_axis, v_axis, **kwargs).      *)
(* The positional arguments are fixed by Init; every kwargs entry is drawn *)
(* at the kwargs.get() that reads it.  Python indices are kept 0-based;    *)
(* TLA+ sequences are 1-based, so element j of a Python array a is a[j+1]. *)
(* An optional value is <<>> (None / absent) or <<v>>.                     *)
(***************************************************************************)
EXTENDS Integers, Sequences, FiniteSets, TLC

VARIABLES
    arr2d,          \* argument: [nrows, ncols] of the array row*ncols+col
    h_axis,         \* argument: values on the "x" axis
    v_axis,         \* argument: values on the "y" axis
    tie,            \* tie-breaking rule of idx_from_val
    pc,             \* position inside __init__
    exc,            \* <<>> or <<type, line>> of the exception that ended the call
    kw_extent,      \* kwargs["extent"] as read, <<>> when absent
    kw_vmin,        \* kwargs["vmin"] as read
    kw_vmax,        \* kwargs["vmax"] as read
    crop_idx,       \* <<>> or << <<xmin_idx, xmax_idx, ymin_idx, ymax_idx>> >>
    self_extent,    \* self.extent
    self_data,      \* self.data: a view [r0, nrows, c0, ncols] into arr2d
    self_min_data,  \* self.min_data
    self_max_data,  \* self.max_data
    self_vmin,      \* self.vmin
    self_vmax,      \* self.vmax
    self_h_axis,    \* self.h_axis
    self_v_axis,    \* self.v_axis
    hslice_val,     \* self.hslice_val
    vslice_val,     \* self.vslice_val
    hslice_idx,     \* self.hslice_idx
    vslice_idx,     \* self.vslice_idx
    layout,         \* which branch of draw_fig ran ("" before draw_fig)
    ax0,            \* self.ax0 is not None
    axh,            \* self.axh is not None
    axv,            \* self.axv is not None
    im,             \* <<>> or << the arguments of imshow >>
    lines,          \* reference lines drawn on ax0: [h, v], each optional
    annotated,      \* raw Python indices used by the annotate() calls
    axh_plot,       \* <<>> or << [x, y] >> plotted on axh
    axv_plot        \* <<>> or << [x, y] >> plotted on axv

vars == <<arr2d, h_axis, v_axis, tie, pc, exc, kw_extent, kw_vmin, kw_vmax,
          crop_idx, self_extent, self_data, self_min_data, self_max_data,
          self_vmin, self_vmax, self_h_axis, self_v_axis, hslice_val,
          vslice_val, hslice_idx, vslice_idx, layout, ax0, axh, axv, im,
          lines, annotated, axh_plot, axv_plot>>

---------------------------------------------------------------------------
\* Bounds of the explored inputs.

Small == 4
Big == 42
Below == 0 - 1
Mid == 3
Above == 100
VLo == 2
VHi == 7

Sizes == {0, Small, Big}
Deltas == {<<0, 0>>, <<1, 0>>, <<0, 1>>, <<-1, 0>>, <<0, -1>>}
Steps == {-1, 1, 2}
TieRules == {"lower", "higher"}
ExtVals == {Below, Mid, Above}
SliceVals == {0, Mid, Above}

None == <<>>
Some(v) == <<v>>

ExtentOpts == {None} \cup {Some(<<a, b, c, d>>) : a \in ExtVals, b \in ExtVals,
                                                    c \in ExtVals, d \in ExtVals}
VminOpts == {None, Some(VLo)}
VmaxOpts == {None, Some(VHi)}
SliceOpts == {None} \cup {Some(s) : s \in SliceVals}

\* A strictly monotonic axis of n values, ascending for step > 0.
Axis(n, step) ==
    [i \in 1..n |-> IF step > 0 THEN (i - 1) * step ELSE (n - i) * (-step)]

---------------------------------------------------------------------------
\* numpy and Python primitives.

Abs(x) == IF x < 0 THEN -x ELSE x

\* np.min / np.max: the least / greatest of a non-empty collection of values.
SetMin(V) == CHOOSE x \in V : \A y \in V : x <= y
SetMax(V) == -SetMin({-x : x \in V})
Values(s) == {s[i] : i \in 1..Len(s)}
SeqMin(s) == IF Len(s) = 0 THEN 0 ELSE SetMin(Values(s))
SeqMax(s) == IF Len(s) = 0 THEN 0 ELSE SetMax(Values(s))

\* a[j] is defined for -len(a) <= j < len(a); a negative j counts from the end.
PyIndexOK(n, j) == -n <= j /\ j < n
PyGet(a, j) == a[(IF j < 0 THEN j + Len(a) ELSE j) + 1]

\* The bounds a[lo:hi] keeps of an array of n elements, for lo, hi >= 0.
ClipLo(n, lo) == IF lo > n THEN n ELSE lo
ClipHi(n, lo, hi) ==
    LET h == IF hi > n THEN n ELSE hi IN IF h < ClipLo(n, lo) THEN ClipLo(n, lo) ELSE h

PySlice(a, lo, hi) ==
    [i \in 1..(ClipHi(Len(a), lo, hi) - ClipLo(Len(a), lo)) |-> a[ClipLo(Len(a), lo) + i]]

\* idx_from_val(arr1d, val): the index whose value is nearest to val.
IdxFromVal(arr1d, val) ==
    LET dist == [i \in 1..Len(arr1d) |-> Abs(arr1d[i] - val)]
        best == SeqMin(dist)
        cands == {i \in 1..Len(arr1d) : dist[i] = best}
        pick == IF tie = "lower"
                THEN CHOOSE i \in cands : \A j \in cands : i <= j
                ELSE CHOOSE i \in cands : \A j \in cands : i >= j
    IN pick - 1

\* arr2d[r, c]
Arr2dAt(r, c) == r * arr2d.ncols + c

\* arr2d[ylo:yhi, xlo:xhi] as a view into arr2d.
View2DUpperInclusive(ylo, yhi, xlo, xhi) ==
    [r0 |-> ClipLo(arr2d.nrows, ylo),
     nrows |-> ClipHi(arr2d.nrows, ylo, yhi + 1) - ClipLo(arr2d.nrows, ylo),
     c0 |-> ClipLo(arr2d.ncols, xlo),
     ncols |-> ClipHi(arr2d.ncols, xlo, xhi + 1) - ClipLo(arr2d.ncols, xlo)]

View2D(ylo, yhi, xlo, xhi) ==
    [r0 |-> ClipLo(arr2d.nrows, ylo),
     nrows |-> ClipHi(arr2d.nrows, ylo, yhi) - ClipLo(arr2d.nrows, ylo),
     c0 |-> ClipLo(arr2d.ncols, xlo),
     ncols |-> ClipHi(arr2d.ncols, xlo, xhi) - ClipLo(arr2d.ncols, xlo)]

DataAt(d, r, c) == Arr2dAt(d.r0 + r, d.c0 + c)
DataRow(d, r) == [c \in 1..d.ncols |-> DataAt(d, r, c - 1)]
DataCol(d, c) == [r \in 1..d.nrows |-> DataAt(d, r - 1, c)]
ZeroSize(d) == d.nrows = 0 \/ d.ncols = 0

Cells(d) == {DataAt(d, r, c) : r \in 0..(d.nrows - 1), c \in 0..(d.ncols - 1)}

AminWholeArray(d) ==
    SetMin({Arr2dAt(r, c) : r \in 0..(arr2d.nrows - 1), c \in 0..(arr2d.ncols - 1)})

Amin(d) == SetMin(Cells(d))
Amax(d) == SetMax(Cells(d))

---------------------------------------------------------------------------
\* The shapes of the arguments: the axes match the array or differ from it by
\* one element, so that a mismatched call is among the inputs.
Shapes ==
    {s \in {[nrows |-> nr, ncols |-> nc, hlen |-> nc + d[1], vlen |-> nr + d[2]] :
               nr \in Sizes, nc \in Sizes, d \in Deltas} :
        s.hlen >= 0 /\ s.vlen >= 0}

Init ==
    /\ \E s \in Shapes, step \in Steps :
          /\ arr2d = [nrows |-> s.nrows, ncols |-> s.ncols]
          /\ h_axis = Axis(s.hlen, step)
          /\ v_axis = Axis(s.vlen, step)
    /\ tie \in TieRules
    /\ pc = "cropping"
    /\ exc = None
    /\ kw_extent = None /\ kw_vmin = None /\ kw_vmax = None
    /\ crop_idx = None
    /\ self_extent = None
    /\ self_data = None
    /\ self_min_data = None /\ self_max_data = None
    /\ self_vmin = None /\ self_vmax = None
    /\ self_h_axis = None /\ self_v_axis = None
    /\ hslice_val = None /\ vslice_val = None
    /\ hslice_idx = None /\ vslice_idx = None
    /\ layout = ""
    /\ ax0 = FALSE /\ axh = FALSE /\ axv = FALSE
    /\ im = None
    /\ lines = [h |-> None, v |-> None]
    /\ annotated = <<>>
    /\ axh_plot = None /\ axv_plot = None

---------------------------------------------------------------------------
\* __init__, lines 58-74: the extent, the crop window, the colour-scale bounds.

Val(o) == o[1]

CropWindow(e) ==
    <<IdxFromVal(h_axis, e[1]), IdxFromVal(h_axis, e[2]),
      IdxFromVal(v_axis, e[3]), IdxFromVal(v_axis, e[4])>>

DefaultExtent == <<SeqMin(h_axis), SeqMax(h_axis), SeqMin(v_axis), SeqMax(v_axis)>>

Crop ==
    /\ pc = "cropping"
    /\ UNCHANGED <<arr2d, h_axis, v_axis, tie, hslice_val, vslice_val, hslice_idx,
                   vslice_idx, layout, ax0, axh, axv, im, lines, annotated,
                   axh_plot, axv_plot>>
    /\ \E ext \in ExtentOpts :
          IF Len(h_axis) = 0 \/ Len(v_axis) = 0
          THEN \* np.min of an empty axis, evaluated before kwargs.get is called
               /\ pc' = "raised"
               /\ exc' = <<"ValueError", 59>>
               /\ UNCHANGED <<kw_extent, kw_vmin, kw_vmax, crop_idx, self_extent,
                              self_data, self_min_data, self_max_data, self_vmin,
                              self_vmax, self_h_axis, self_v_axis>>
          ELSE LET e == IF ext = None THEN DefaultExtent ELSE Val(ext)
                   w == CropWindow(e)
                   d == View2D(w[3], w[4], w[1], w[2])
               IN /\ kw_extent' = ext
                  /\ self_extent' = e
                  /\ crop_idx' = Some(w)
                  /\ self_data' = Some(d)
                  /\ IF ZeroSize(d)
                     THEN \* np.amin of a zero-size array
                          /\ pc' = "raised"
                          /\ exc' = <<"ValueError", 67>>
                          /\ UNCHANGED <<kw_vmin, kw_vmax, self_min_data,
                                         self_max_data, self_vmin, self_vmax,
                                         self_h_axis, self_v_axis>>
                     ELSE /\ self_min_data' = Some(Amin(d))
                          /\ self_max_data' = Some(Amax(d))
                          /\ \E vmn \in VminOpts, vmx \in VmaxOpts :
                                /\ kw_vmin' = vmn
                                /\ kw_vmax' = vmx
                                /\ self_vmin' = IF vmn = None THEN self_min_data'
                                                               ELSE vmn
                                /\ self_vmax' = IF vmx = None THEN self_max_data'
                                                               ELSE vmx
                          /\ self_h_axis' = PySlice(h_axis, w[1], w[2])
                          /\ self_v_axis' = PySlice(v_axis, w[3], w[4])
                          /\ pc' = "slicing"
                          /\ exc' = None

---------------------------------------------------------------------------
\* __init__, lines 83-90: the slice coordinates and their indices.

IsNotNoneTruthy(o) == o # None /\ Val(o) # 0

IsNotNone(o) == o # None

HSliceIdxUncropped(val) == IdxFromVal(v_axis, val)

HSliceIdx(val) == IdxFromVal(self_v_axis, val)

VSliceIdx(val) == IdxFromVal(self_h_axis, val)

ResolveSlices ==
    /\ pc = "slicing"
    /\ UNCHANGED <<arr2d, h_axis, v_axis, tie, kw_extent, kw_vmin, kw_vmax, crop_idx,
                   self_extent, self_data, self_min_data, self_max_data, self_vmin,
                   self_vmax, self_h_axis, self_v_axis, layout, ax0, axh, axv, im,
                   lines, annotated, axh_plot, axv_plot>>
    /\ \E hv \in SliceOpts, vv \in SliceOpts :
          /\ hslice_val' = hv
          /\ vslice_val' = vv
          /\ IF IsNotNone(hv) /\ Len(self_v_axis) = 0
             THEN \* argmin of an empty sequence
                  /\ pc' = "raised" /\ exc' = <<"ValueError", 88>>
                  /\ UNCHANGED <<hslice_idx, vslice_idx>>
             ELSE /\ hslice_idx' = IF IsNotNone(hv) THEN Some(HSliceIdx(Val(hv))) ELSE None
                  /\ IF IsNotNone(vv) /\ Len(self_h_axis) = 0
                     THEN /\ pc' = "raised" /\ exc' = <<"ValueError", 90>>
                          /\ UNCHANGED vslice_idx
                     ELSE /\ vslice_idx' = IF IsNotNone(vv) THEN Some(VSliceIdx(Val(vv)))
                                                             ELSE None
                          /\ pc' = "drawing"
                          /\ exc' = None

---------------------------------------------------------------------------
\* draw_fig, lines 150-297, and main_panel, lines 134-148.  The text and the
\* colorbar of lines 276-297 read none of the state below and are left out.

HAnnotCol == 3
HAnnotRowShift == 3
VAnnotShift == 40

\* The arguments of self.ax0.imshow().
MainPanel ==
    Some([data |-> Val(self_data), extent |-> self_extent,
          vmin |-> Val(self_vmin), vmax |-> Val(self_vmax)])

HIdx == Val(hslice_idx)
VIdx == Val(vslice_idx)

\* Raw indices of the xy position of each annotation.
HAnnotIdx == [axis_h |-> HAnnotCol, axis_v |-> HIdx + HAnnotRowShift]
VAnnotIdx == [axis_h |-> VIdx - VAnnotShift, axis_v |-> -VAnnotShift]

IndexErrorUnless(ok) == IF ok THEN "" ELSE "IndexError"

\* self.ax0.axhline(y=self.v_axis[self.hslice_idx])
HLineStep(l) ==
    [line |-> l, err |-> IndexErrorUnless(PyIndexOK(Len(self_v_axis), HIdx))]

\* self.ax0.axvline(x=self.h_axis[self.vslice_idx])
VLineStep(l) ==
    [line |-> l, err |-> IndexErrorUnless(PyIndexOK(Len(self_h_axis), VIdx))]

\* self.ax0.annotate(..., xy=(self.h_axis[3], self.v_axis[self.hslice_idx + 3]))
HAnnotStep(l) ==
    [line |-> l,
     err |-> IndexErrorUnless(/\ PyIndexOK(Len(self_h_axis), HAnnotIdx.axis_h)
                              /\ PyIndexOK(Len(self_v_axis), HAnnotIdx.axis_v))]

\* self.ax0.annotate(..., xy=(self.h_axis[self.vslice_idx - 40], self.v_axis[-40]))
VAnnotStep(l) ==
    [line |-> l,
     err |-> IndexErrorUnless(/\ PyIndexOK(Len(self_h_axis), VAnnotIdx.axis_h)
                              /\ PyIndexOK(Len(self_v_axis), VAnnotIdx.axis_v))]

\* self.axh.plot(self.h_axis, self.data[self.hslice_idx, :]): plot() raises
\* ValueError when x and y differ in length.
HPlotStep(l) ==
    [line |-> l,
     err |-> IF ~PyIndexOK(Val(self_data).nrows, HIdx) THEN "IndexError"
             ELSE IF Len(self_h_axis) # Val(self_data).ncols THEN "ValueError"
             ELSE ""]

\* self.axv.plot(self.data[:, self.vslice_idx], self.v_axis)
VPlotStep(l) ==
    [line |-> l,
     err |-> IF ~PyIndexOK(Val(self_data).ncols, VIdx) THEN "IndexError"
             ELSE IF Len(self_v_axis) # Val(self_data).nrows THEN "ValueError"
             ELSE ""]

\* The statements of a branch run in order until one raises.
Passed(steps, k) == \A i \in 1..k : steps[i].err = ""
FirstErr(steps) ==
    IF Passed(steps, Len(steps)) THEN None
    ELSE LET i == CHOOSE j \in 1..Len(steps) :
                      steps[j].err # "" /\ Passed(steps, j - 1)
         IN <<steps[i].err, steps[i].line>>

Finish(steps) ==
    /\ exc' = FirstErr(steps)
    /\ pc' = IF FirstErr(steps) = None THEN "done" ELSE "raised"

HLineDrawn == Some(PyGet(self_v_axis, HIdx))
VLineDrawn == Some(PyGet(self_h_axis, VIdx))
HPlotted == Some([x |-> self_h_axis, y |-> DataRow(Val(self_data), HIdx)])
VPlotted == Some([x |-> DataCol(Val(self_data), VIdx), y |-> self_v_axis])

\* The conditions of the if / elif / elif / else chain of lines 159-224.
BranchMain == hslice_idx = None /\ vslice_idx = None
BranchH == hslice_idx # None /\ vslice_idx = None
BranchV == vslice_idx # None /\ hslice_idx = None
BranchBoth == ~BranchMain /\ ~BranchH /\ ~BranchV

Unread ==
    <<arr2d, h_axis, v_axis, tie, kw_extent, kw_vmin, kw_vmax, crop_idx,
      self_extent, self_data, self_min_data, self_max_data, self_vmin, self_vmax,
      self_h_axis, self_v_axis, hslice_val, vslice_val, hslice_idx, vslice_idx>>

DrawMainOnly ==
    /\ pc = "drawing"
    /\ BranchMain
    /\ layout' = "main"
    /\ ax0' = TRUE
    /\ im' = MainPanel
    /\ pc' = "done"
    /\ UNCHANGED <<Unread, exc, axh, axv, lines, annotated, axh_plot, axv_plot>>

DrawHSlice ==
    /\ pc = "drawing"
    /\ ~BranchMain /\ BranchH
    /\ layout' = "hslice"
    /\ ax0' = TRUE
    /\ axh' = TRUE
    /\ im' = MainPanel
    /\ LET steps == <<HLineStep(172), HAnnotStep(176), HPlotStep(183)>>
       IN /\ lines' = [lines EXCEPT !.h = IF Passed(steps, 1) THEN HLineDrawn ELSE None]
          /\ annotated' = IF Passed(steps, 2) THEN <<HAnnotIdx>> ELSE <<>>
          /\ axh_plot' = IF Passed(steps, 3) THEN HPlotted ELSE None
          /\ Finish(steps)
    /\ UNCHANGED <<Unread, axv, axv_plot>>

DrawVSlice ==
    /\ pc = "drawing"
    /\ ~BranchMain /\ ~BranchH /\ BranchV
    /\ layout' = "vslice"
    /\ ax0' = TRUE
    /\ axv' = TRUE
    /\ im' = MainPanel
    /\ LET steps == <<VLineStep(201), VAnnotStep(205), VPlotStep(213)>>
       IN /\ lines' = [lines EXCEPT !.v = IF Passed(steps, 1) THEN VLineDrawn ELSE None]
          /\ annotated' = IF Passed(steps, 2) THEN <<VAnnotIdx>> ELSE <<>>
          /\ axv_plot' = IF Passed(steps, 3) THEN VPlotted ELSE None
          /\ Finish(steps)
    /\ UNCHANGED <<Unread, axh, axh_plot>>

DrawBoth ==
    /\ pc = "drawing"
    /\ BranchBoth
    /\ layout' = "both"
    /\ ax0' = TRUE
    /\ axh' = TRUE
    /\ axv' = TRUE
    /\ im' = MainPanel
    /\ LET steps == <<HLineStep(232), VLineStep(233), HAnnotStep(237),
                      VAnnotStep(244), HPlotStep(252), VPlotStep(258)>>
       IN /\ lines' = [h |-> IF Passed(steps, 1) THEN HLineDrawn ELSE None,
                       v |-> IF Passed(steps, 2) THEN VLineDrawn ELSE None]
          /\ annotated' = IF Passed(steps, 4) THEN <<HAnnotIdx, VAnnotIdx>>
                          ELSE IF Passed(steps, 3) THEN <<HAnnotIdx>>
                          ELSE <<>>
          /\ axh_plot' = IF Passed(steps, 5) THEN HPlotted ELSE None
          /\ axv_plot' = IF Passed(steps, 6) THEN VPlotted ELSE None
          /\ Finish(steps)
    /\ UNCHANGED Unread

Next ==
    \/ Crop
    \/ ResolveSlices
    \/ DrawMainOnly
    \/ DrawHSlice
    \/ DrawVSlice
    \/ DrawBoth

Spec == Init /\ [][Next]_vars

---------------------------------------------------------------------------
\* Vocabulary of the properties.

InputsMatch == Len(h_axis) = arr2d.ncols /\ Len(v_axis) = arr2d.nrows
InputEmpty ==
    arr2d.nrows = 0 \/ arr2d.ncols = 0 \/ Len(h_axis) = 0 \/ Len(v_axis) = 0

\* Arguments the constructor is documented for: matching, non-empty, both
\* axes ascending.
Ascending(axis) == \A i \in 1..(Len(axis) - 1) : axis[i] < axis[i + 1]
ValidInputs ==
    InputsMatch /\ ~InputEmpty /\ Ascending(h_axis) /\ Ascending(v_axis)

\* Lines 58-74 ran to their end.
Cropped == self_vmin # None
\* draw_fig entered one of its branches.
Drew == layout # ""

WholeArray == [r0 |-> 0, nrows |-> arr2d.nrows, c0 |-> 0, ncols |-> arr2d.ncols]

Degenerate(w) == w[1] >= w[2] \/ w[3] >= w[4]

\* The cells of arr2d inside the index window w, read from arr2d itself.
WindowCells(w) ==
    {Arr2dAt(r, c) : r \in {y \in w[3]..(w[4] - 1) : y < arr2d.nrows},
                     c \in {x \in w[1]..(w[2] - 1) : x < arr2d.ncols}}

InRange(axis, val) == SeqMin(axis) <= val /\ val <= SeqMax(axis)
Boundary(axis, val) == IF val < SeqMin(axis) THEN SeqMin(axis) ELSE SeqMax(axis)

AnnotateLines == {176, 205, 237, 244}

---------------------------------------------------------------------------
\* C1: with matching, non-empty, ascending inputs and the extent equal to the full range
\* of both axes, the crop completes and data, h_axis and v_axis equal the
\* arguments, no row or column dropped.
C1_FullRangeCropKeepsAll ==
    (/\ ValidInputs
     /\ pc # "cropping"
     /\ self_extent = DefaultExtent)
    => (/\ Cropped
        /\ Val(self_data) = WholeArray
        /\ self_h_axis = h_axis
        /\ self_v_axis = v_axis)

\* C2: for valid inputs, a slice coordinate outside the range of the cropped axis never ends
\* the call in an exception; its index is the first or last index of the
\* cropped axis, and the reference line and the annotation are drawn there.
C2_OutOfRangeSliceClamps ==
    /\ (ValidInputs /\ hslice_idx # None /\ ~InRange(self_v_axis, Val(hslice_val)))
       => (/\ pc # "raised"
           /\ HIdx \in {0, Len(self_v_axis) - 1}
           /\ PyGet(self_v_axis, HIdx) = Boundary(self_v_axis, Val(hslice_val))
           /\ (pc = "done" => /\ lines.h = Some(Boundary(self_v_axis, Val(hslice_val)))
                               /\ annotated # <<>>))
    /\ (ValidInputs /\ vslice_idx # None /\ ~InRange(self_h_axis, Val(vslice_val)))
       => (/\ pc # "raised"
           /\ VIdx \in {0, Len(self_h_axis) - 1}
           /\ PyGet(self_h_axis, VIdx) = Boundary(self_h_axis, Val(vslice_val))
           /\ (pc = "done" => /\ lines.v = Some(Boundary(self_h_axis, Val(vslice_val)))
                               /\ annotated # <<>>))

\* C3: when an axis length differs from the matching dimension of arr2d, or an
\* input is empty, the call ends in an exception: no image is ever drawn and
\* the construction never completes, whatever the slice options (stated for
\* ascending axes).
C3_InvalidInputFailsFast ==
    (/\ ~InputsMatch \/ InputEmpty
     /\ Ascending(h_axis) /\ Ascending(v_axis))
    => (pc # "done" /\ im = None)

\* C4: when the crop indices give an empty or reversed window on either axis,
\* the call ends in an exception before any panel is drawn: no axes, no image,
\* no constructed object.
C4_DegenerateCropFailsFast ==
    (crop_idx # None /\ Degenerate(Val(crop_idx)))
    => (/\ pc = "raised"
        /\ ~Drew
        /\ ~ax0 /\ ~axh /\ ~axv
        /\ im = None)

C4_Witness ==
    /\ crop_idx # None
    /\ Val(crop_idx)[1] > Val(crop_idx)[2]
    /\ Val(crop_idx)[3] < Val(crop_idx)[4]
    /\ pc = "raised"
    /\ exc = <<"ValueError", 67>>

\* C5: exactly one branch of draw_fig is selected for each combination of
\* supplied / absent hslice_val and vslice_val (0 counts as supplied); once it
\* ran, ax0 exists, axh exists iff hslice_val was supplied and axv exists iff
\* vslice_val was supplied.
C5_LayoutSelection ==
    /\ pc = "drawing"
       => Cardinality({b \in {"main", "hslice", "vslice", "both"} :
                         \/ b = "main" /\ BranchMain
                         \/ b = "hslice" /\ BranchH
                         \/ b = "vslice" /\ BranchV
                         \/ b = "both" /\ BranchBoth}) = 1
    /\ Drew
       => /\ ax0
          /\ axh <=> (hslice_val # None)
          /\ axv <=> (vslice_val # None)
          /\ layout = (IF hslice_val = None
                       THEN (IF vslice_val = None THEN "main" ELSE "vslice")
                       ELSE (IF vslice_val = None THEN "hslice" ELSE "both"))

C5_Witness ==
    /\ pc = "done"
    /\ hslice_val = Some(0)
    /\ vslice_val = None
    /\ layout = "hslice"
    /\ ax0 /\ axh /\ ~axv

\* C6: a colour-scale bound that is not supplied equals the minimum (maximum)
\* of the cropped window of arr2d; a supplied bound is stored as given and
\* leaves the other untouched; two defaulted bounds satisfy vmin <= vmax.
C6_ColourScaleDefaults ==
    Cropped
    => /\ kw_vmin = None => Val(self_vmin) = SetMin(WindowCells(Val(crop_idx)))
       /\ kw_vmax = None => Val(self_vmax) = SetMax(WindowCells(Val(crop_idx)))
       /\ kw_vmin # None => self_vmin = kw_vmin
       /\ kw_vmax # None => self_vmax = kw_vmax
       /\ (kw_vmin = None /\ kw_vmax = None) => Val(self_vmin) <= Val(self_vmax)

C6_Witness ==
    /\ Cropped
    /\ kw_vmin = None
    /\ kw_vmax = Some(VHi)
    /\ Val(self_data).c0 > 0
    /\ Val(self_vmin) > AminWholeArray(WholeArray)
    /\ self_vmax = Some(VHi)

\* C7: with valid inputs, the default extent and hslice_val = v_axis[k],
\* hslice_idx = k and the horizontal strip plots the whole row k of arr2d
\* against the whole h_axis; symmetrically for vslice_val = h_axis[k].
C7_SliceReadsWholeLine ==
    (ValidInputs /\ kw_extent = None)
    => /\ \A k \in 0..(Len(v_axis) - 1) :
             (hslice_idx # None /\ Val(hslice_val) = v_axis[k + 1])
             => /\ HIdx = k
                /\ Drew => axh_plot =
                              Some([x |-> h_axis,
                                    y |-> [c \in 1..arr2d.ncols |-> Arr2dAt(k, c - 1)]])
       /\ \A k \in 0..(Len(h_axis) - 1) :
             (vslice_idx # None /\ Val(vslice_val) = h_axis[k + 1])
             => /\ VIdx = k
                /\ Drew => axv_plot =
                              Some([x |-> [r \in 1..arr2d.nrows |-> Arr2dAt(r - 1, k)],
                                    y |-> v_axis])

C9_ExtentWithinAxes ==
    (ValidInputs /\ pc = "done")
    => /\ SeqMin(h_axis) <= self_extent[1] /\ self_extent[2] <= SeqMax(h_axis)
       /\ SeqMin(v_axis) <= self_extent[3] /\ self_extent[4] <= SeqMax(v_axis)
       /\ Val(im).extent = self_extent

\* C10: for valid inputs, when every requested slice coordinate lies inside the
\* range of its cropped axis, no annotate() call raises and every index it
\* uses is a non-wrapping index 0 <= j < len of the cropped axis.
C10_AnnotationIndicesValid ==
    (/\ ValidInputs
     /\ Drew
     /\ hslice_idx # None => InRange(self_v_axis, Val(hslice_val))
     /\ vslice_idx # None => InRange(self_h_axis, Val(vslice_val)))
    => /\ ~(pc = "raised" /\ exc[2] \in AnnotateLines)
       /\ \A i \in 1..Len(annotated) :
             /\ 0 <= annotated[i].axis_h /\ annotated[i].axis_h < Len(self_h_axis)
             /\ 0 <= annotated[i].axis_v /\ annotated[i].axis_v < Len(self_v_axis)

============================================================================
